---- MODULE Spec2Model ----
(***************************************************************************)
(* Model of neevek/monolithica, src/lib.rs: AssetArhiver::create_archive   *)
(* (check_path, concat_files) and AssetIndexer (new, locate_asset).        *)
(*                                                                         *)
(* Strings, paths and file contents are sequences of one-character         *)
(* strings.  The file system is a function from canonical paths (sequences *)
(* of component names) to nodes.                                           *)
(***************************************************************************)
EXTENDS Integers, Sequences, FiniteSets, TLC

\* ------------------------------------------------------------------ bounds
\* The copy buffer is 8192 bytes in the source (lib.rs:68); it is scaled down
\* here so that one file spans several chunks of the copy loop.
BufLen == 2
\* Cap on the size of the blob (an unbounded append-only file in the source).
MaxBlob == 56
\* Number of index lines of the texts fed to the parser on its own.
MaxLines == 2

\* ------------------------------------------------------- string utilities
Last(s) == s[Len(s)]

MinOf(S) == CHOOSE i \in S : \A j \in S : i <= j

\* Index of the first occurrence of d in s, 0 when there is none.
FindFirst(s, d) ==
    LET c == {i \in 1..(Len(s) - Len(d) + 1) : SubSeq(s, i, i + Len(d) - 1) = d}
    IN IF c = {} THEN 0 ELSE MinOf(c)

\* str::split(d): the pieces between non-overlapping matches of d, found
\* left to right; always at least one piece.
RECURSIVE SplitStr(_, _)
SplitStr(s, d) ==
    LET i == FindFirst(s, d)
    IN IF i = 0 THEN <<s>>
       ELSE <<SubSeq(s, 1, i - 1)>> \o SplitStr(SubSeq(s, i + Len(d), Len(s)), d)

\* str::lines(): split at "\n"; a final empty piece is not a line.
Lines(text) ==
    LET ps == SplitStr(text, <<"\n">>)
    IN IF Last(ps) = <<>> THEN SubSeq(ps, 1, Len(ps) - 1) ELSE ps

Digits == <<"0", "1", "2", "3", "4", "5", "6", "7", "8", "9">>

DigitVal(c) == (CHOOSE i \in 1..10 : Digits[i] = c) - 1

IsDigit(c) == \E i \in 1..10 : Digits[i] = c

\* Display for u64: the decimal digits, no sign, no padding.
RECURSIVE ToDec(_)
ToDec(n) ==
    IF n < 10 THEN <<Digits[n + 1]>>
    ELSE ToDec(n \div 10) \o <<Digits[(n % 10) + 1]>>

RECURSIVE DecVal(_)
DecVal(s) ==
    IF s = <<>> THEN 0 ELSE 10 * DecVal(SubSeq(s, 1, Len(s) - 1)) + DigitVal(Last(s))

\* str::parse::<u64>(): an optional '+', then one or more digits; -1 stands
\* for Err.  (Values stay far below 2^64 in this model.)
ParseU64(s) ==
    LET body == IF s # <<>> /\ s[1] = "+" THEN Tail(s) ELSE s
    IN IF body = <<>> \/ \E i \in 1..Len(body) : ~IsDigit(body[i]) THEN -1
       ELSE DecVal(body)

DELIM == <<"/", "/">>

\* ----------------------------------------------------------- path utilities
\* src_dir.strip_suffix('/').unwrap_or(src_dir): at most one '/' is removed.
StripSuffixSlash(s) ==
    IF s # <<>> /\ Last(s) = "/" THEN SubSeq(s, 1, Len(s) - 1) ELSE s

\* DirEntry::path() = PathBuf::join(dir, name): a separator is added only when
\* dir does not already end with one.
PathJoin(dir, name) ==
    IF dir # <<>> /\ Last(dir) # "/" THEN dir \o <<"/">> \o name ELSE dir \o name

\* &path_str[path_start_pos..]
SliceFrom(s, pos) == SubSeq(s, pos + 1, Len(s))

RECURSIVE DropEmpty(_)
DropEmpty(ps) ==
    IF ps = <<>> THEN <<>>
    ELSE IF Head(ps) = <<>> THEN DropEmpty(Tail(ps))
    ELSE <<Head(ps)>> \o DropEmpty(Tail(ps))

\* Path resolution by the operating system: the components of a path string,
\* repeated and trailing separators ignored.
Resolve(p) == DropEmpty(SplitStr(p, <<"/">>))

\* ------------------------------------------------------------- file system
D  == <<"d">>
NX == <<"x", "j">>
NS == <<"s">>
NC == <<"c">>
NO == <<"o">>
NB == <<"B">>
NI == <<"I">>

KRoot == <<D>>
KX    == <<D, NX>>
KS    == <<D, NS>>
KC    == <<D, NS, NC>>
KO    == <<D, NO>>
KBin  == <<D, NB>>
KIin  == <<D, NI>>
KBout == <<NB>>
KIout == <<NI>>

Keys == {KRoot, KX, KS, KC, KO, KBin, KIin, KBout, KIout}

Absent == [kind |-> "none", data |-> <<>>]

Node(k, d) == [kind |-> k, data |-> d]

\* Names of the entries of directory dk, as fs::read_dir lists them.
ChildNames(f, dk) ==
    {Last(k) : k \in {c \in Keys : /\ Len(c) = Len(dk) + 1
                                   /\ SubSeq(c, 1, Len(dk)) = dk
                                   /\ f[c].kind # "none"}}

\* Variant of IsFile that also takes a dangling symlink for a regular file.
IsFileOrLink(n) == n.kind \in {"file", "symlink"}

\* Path::is_file / Path::is_dir; a "symlink" node is a dangling symlink.
IsFile(n) == n.kind = "file"

IsDir(n) == n.kind = "dir"

\* mime_guess::from_path(path).first(): decided by the end of the name.
MimeOf(path) ==
    IF path # <<>> /\ Last(path) = "j" THEN <<"a", "/", "j">> ELSE <<>>

\* ------------------------------------------------------------------ state
VARIABLES
    fs,          \* the file system: canonical path -> node
    fs0,         \* history: the file system when create_archive was called
    src_dir,     \* create_archive arguments
    blob_path,
    idx_path,
    overwrite,
    pc,          \* position in create_archive / AssetIndexer
    result,      \* outcome of create_archive
    base_dir,    \* concat_files: base_dir
    enter_dir,   \* concat_files: src_dir of the call being entered
    stack,       \* the active concat_files calls: [dir, todo]
    cur,         \* the file being copied: [key, rpos, start]
    offset,      \* the running offset counter
    created,     \* both output files have been created by this call
    fault,       \* the I/O failure that was injected, "none" if none
    idx_log,     \* history: the records written to the index, in order
    blob_log,    \* history: the files copied to the blob, in order
    content,     \* AssetIndexer::new: the index text
    lines,       \* AssetIndexer::new: the lines not yet parsed
    asset_map,   \* AssetIndexer: path -> Asset
    query,       \* locate_asset: the last path asked for
    found,       \* locate_asset: the last answer
    src_lines    \* history: the fields the parser's input text was made of

vars == <<fs, fs0, src_dir, blob_path, idx_path, overwrite, pc, result, base_dir,
          enter_dir, stack, cur, offset, created, fault, idx_log, blob_log,
          content, lines, asset_map, query, found, src_lines>>

argVars    == <<fs0, src_dir, blob_path, idx_path, overwrite>>
walkVars   == <<base_dir, enter_dir, stack, cur, offset, idx_log, blob_log>>
readerVars == <<content, lines, asset_map, query, found>>

BlobKey == Resolve(blob_path)
IdxKey  == Resolve(idx_path)

NoCur   == [key |-> <<>>, rpos |-> 0, start |-> 0]
NoAsset == [offset |-> 0, len |-> 0, mime |-> <<>>]
NoFound == [some |-> FALSE, asset |-> NoAsset]
EmptyMap == [p \in {} |-> NoAsset]

\* The source trees and the states of the two destination paths.
DestKinds == {Absent, Node("file", <<"q">>), Node("symlink", <<>>), Node("dir", <<>>)}

Trees ==
    {[k \in Keys |->
        CASE k = KRoot -> Node("dir", <<>>)
          [] k = KX    -> x
          [] k = KS    -> IF s = "none" THEN Absent ELSE Node("dir", <<>>)
          [] k = KC    -> IF s = "full" THEN Node("file", <<"z">>) ELSE Absent
          [] k = KO    -> o
          [] OTHER     -> Absent] :
        x \in {Absent, Node("file", <<"u">>), Node("file", <<"u", "v", "w">>)},
        s \in {"none", "empty", "full"},
        o \in {Absent, Node("symlink", <<>>)}}

FullTree ==
    [k \in Keys |->
        CASE k = KRoot -> Node("dir", <<>>)
          [] k = KX    -> Node("file", <<"u", "v", "w">>)
          [] k = KS    -> Node("dir", <<>>)
          [] k = KC    -> Node("file", <<"z">>)
          [] k = KO    -> Node("symlink", <<>>)
          [] OTHER     -> Absent]

SrcDirs == {<<"d">>, <<"d", "/">>, <<"d", "/", "/">>}

\* The state in which create_archive is called, for source directory
\* arguments dirs, source trees trees and pairs dests of the nodes at the
\* blob path and the index path.
InitArgs(dirs, trees, dests) ==
    /\ src_dir \in dirs
    /\ blob_path \in {<<"B">>, <<"d", "/", "B">>}
    /\ idx_path \in {<<"I">>, <<"d", "/", "I">>}
    /\ overwrite \in BOOLEAN
    /\ \E t \in trees, d \in dests :
          fs = [t EXCEPT ![BlobKey] = d[1], ![IdxKey] = d[2]]
    /\ fs0 = fs
    /\ pc = "check_blob"
    /\ result = "running"
    /\ base_dir = <<>>
    /\ enter_dir = <<>>
    /\ stack = <<>>
    /\ cur = NoCur
    /\ offset = 0
    /\ created = FALSE
    /\ fault = "none"
    /\ idx_log = <<>>
    /\ blob_log = <<>>
    /\ content = <<>>
    /\ lines = <<>>
    /\ asset_map = EmptyMap
    /\ query = <<>>
    /\ found = NoFound
    /\ src_lines = <<>>

\* Every source tree and source directory argument, the destinations both
\* free or both regular files.
Init ==
    InitArgs(SrcDirs, Trees,
             {<<Absent, Absent>>, <<Node("file", <<"q">>), Node("file", <<"q">>)>>})

\* Every kind of destination, on one source tree.
InitGuard == InitArgs({<<"d">>}, {FullTree}, DestKinds \X DestKinds)

\* ------------------------------------------------------------- check_path
\* Variant of CheckPath that removes the existing file before it looks at
\* the overwrite flag.
CheckPathRemoveFirst(n, ow) ==
    IF n.kind \in {"file", "symlink"}
    THEN IF ~ow THEN [res |-> "already_exists", node |-> Absent]
         ELSE [res |-> "ok", node |-> Absent]
    ELSE IF n.kind # "none" THEN [res |-> "not_a_file", node |-> n]
    ELSE [res |-> "ok", node |-> n]

\* The outcome of check_path on a destination whose node is n, and the node
\* it leaves there.
CheckPath(n, ow) ==
    IF n.kind \in {"file", "symlink"}
    THEN IF ~ow THEN [res |-> "already_exists", node |-> n]
         ELSE [res |-> "ok", node |-> Absent]
    ELSE IF n.kind # "none" THEN [res |-> "not_a_file", node |-> n]
    ELSE [res |-> "ok", node |-> n]

CheckStep(key, nextpc) ==
    LET r == CheckPath(fs[key], overwrite)
    IN /\ fs' = [fs EXCEPT ![key] = r.node]
       /\ IF r.res = "ok"
          THEN pc' = nextpc /\ result' = result
          ELSE pc' = "done" /\ result' = r.res
       /\ UNCHANGED <<argVars, walkVars, readerVars, created, fault, src_lines>>

CheckBlobPath == pc = "check_blob" /\ CheckStep(BlobKey, "check_idx")

CheckIndexPath == pc = "check_idx" /\ CheckStep(IdxKey, "create_blob")

\* --------------------------------------------------------- create_archive
CreateBlob ==
    /\ pc = "create_blob"
    /\ fs' = [fs EXCEPT ![BlobKey] = Node("file", <<>>)]
    /\ pc' = "create_idx"
    /\ UNCHANGED <<argVars, walkVars, readerVars, result, created, fault, src_lines>>

CreateIndex ==
    /\ pc = "create_idx"
    /\ fs' = [fs EXCEPT ![IdxKey] = Node("file", <<>>)]
    /\ created' = TRUE
    /\ offset' = 0
    /\ base_dir' = StripSuffixSlash(src_dir)
    /\ enter_dir' = StripSuffixSlash(src_dir)
    /\ pc' = "enter"
    /\ UNCHANGED <<argVars, readerVars, result, stack, cur, fault, idx_log,
                   blob_log, src_lines>>

\* ----------------------------------------------------------- concat_files
FormatLine(rel, off, len, mime) ==
    rel \o DELIM \o ToDec(off) \o DELIM \o ToDec(len) \o DELIM \o mime \o <<"\n">>

\* Variant of NextOffset that does not advance the counter.
NextOffsetStale(off, len) == off

NextOffset(off, len) == off + len

Top == stack[Len(stack)]

Pop(st) == SubSeq(st, 1, Len(st) - 1)

Consume(st, name) == [st EXCEPT ![Len(st)].todo = @ \ {name}]

\* fs::read_dir(src_dir) at the start of a concat_files call.
EnterDir ==
    /\ pc = "enter"
    /\ stack' = Append(stack, [dir |-> enter_dir,
                                todo |-> ChildNames(fs, Resolve(enter_dir))])
    /\ pc' = "walk"
    /\ UNCHANGED <<fs, argVars, readerVars, result, base_dir, enter_dir, cur,
                   offset, created, fault, idx_log, blob_log, src_lines>>

\* A regular file: open, metadata, mime, the index line, the offset.
VisitFile ==
    /\ pc = "walk"
    /\ \E name \in Top.todo :
         LET path     == PathJoin(Top.dir, name)
             key      == Resolve(path)
             file_len == Len(fs[key].data)
             mime     == MimeOf(path)
             rel      == SliceFrom(path, Len(base_dir) + 1)
         IN /\ IsFile(fs[key])
            /\ fs' = [fs EXCEPT ![IdxKey].data =
                                   @ \o FormatLine(rel, offset, file_len, mime)]
            /\ idx_log' = Append(idx_log, [key |-> key, path |-> rel,
                                           offset |-> offset, len |-> file_len,
                                           mime |-> mime])
            /\ offset' = NextOffset(offset, file_len)
            /\ cur' = [key |-> key, rpos |-> 0, start |-> Len(fs[BlobKey].data)]
            /\ stack' = Consume(stack, name)
    /\ pc' = "copy"
    /\ UNCHANGED <<argVars, readerVars, result, base_dir, enter_dir, created,
                   fault, blob_log, src_lines>>

\* A directory: the recursive call.
VisitDir ==
    /\ pc = "walk"
    /\ \E name \in Top.todo :
         LET path == PathJoin(Top.dir, name)
         IN /\ ~IsFile(fs[Resolve(path)])
            /\ IsDir(fs[Resolve(path)])
            /\ enter_dir' = path
            /\ stack' = Consume(stack, name)
    /\ pc' = "enter"
    /\ UNCHANGED <<fs, argVars, readerVars, result, base_dir, cur, offset,
                   created, fault, idx_log, blob_log, src_lines>>

\* Neither a regular file nor a directory: nothing is done.
SkipEntry ==
    /\ pc = "walk"
    /\ \E name \in Top.todo :
         LET n == fs[Resolve(PathJoin(Top.dir, name))]
         IN /\ ~IsFile(n)
            /\ ~IsDir(n)
            /\ stack' = Consume(stack, name)
    /\ UNCHANGED <<fs, argVars, readerVars, pc, result, base_dir, enter_dir,
                   cur, offset, created, fault, idx_log, blob_log, src_lines>>

\* The end of the for loop: this concat_files call returns Ok.
ReturnDir ==
    /\ pc = "walk"
    /\ Top.todo = {}
    /\ stack' = Pop(stack)
    /\ IF Len(stack) = 1
       THEN pc' = "done" /\ result' = "ok"
       ELSE pc' = "walk" /\ result' = result
    /\ UNCHANGED <<fs, argVars, readerVars, base_dir, enter_dir, cur, offset,
                   created, fault, idx_log, blob_log, src_lines>>

\* What file.read(&mut buffer) returns: the bytes the file holds now, from
\* the reader's position, at most a buffer of them.
ChunkLen(data, rpos) == IF Len(data) - rpos < BufLen THEN Len(data) - rpos ELSE BufLen

Unread == Len(fs[cur.key].data) - cur.rpos

\* One turn of the copy loop with bytes_read > 0: write_all to the blob.
CopyChunk ==
    /\ pc = "copy"
    /\ LET data == fs[cur.key].data
           n    == ChunkLen(data, cur.rpos)
       IN /\ n > 0
          /\ Len(fs[BlobKey].data) + n <= MaxBlob
          /\ fs' = [fs EXCEPT ![BlobKey].data =
                                 @ \o SubSeq(data, cur.rpos + 1, cur.rpos + n)]
          /\ cur' = [cur EXCEPT !.rpos = @ + n]
    /\ UNCHANGED <<argVars, readerVars, pc, result, base_dir, enter_dir, stack,
                   offset, created, fault, idx_log, blob_log, src_lines>>

\* bytes_read == 0: break.
CopyEnd ==
    /\ pc = "copy"
    /\ ChunkLen(fs[cur.key].data, cur.rpos) = 0
    /\ blob_log' = Append(blob_log, [key |-> cur.key, from |-> cur.start,
                                     to |-> Len(fs[BlobKey].data)])
    /\ cur' = NoCur
    /\ pc' = "walk"
    /\ UNCHANGED <<fs, argVars, readerVars, result, base_dir, enter_dir, stack,
                   offset, created, fault, idx_log, src_lines>>

\* ------------------------------------------------------------ I/O failures
\* The fallible steps that can be reached in the current state.
FaultPoints ==
    (IF \/ pc = "check_blob" /\ overwrite /\ fs[BlobKey].kind \in {"file", "symlink"}
        \/ pc = "check_idx" /\ overwrite /\ fs[IdxKey].kind \in {"file", "symlink"}
     THEN {"remove_file"} ELSE {})
    \cup (IF pc \in {"create_blob", "create_idx"} THEN {"create"} ELSE {})
    \cup (IF pc = "enter" THEN {"read_dir"} ELSE {})
    \cup (IF pc = "walk" /\ Top.todo # {} THEN {"entry"} ELSE {})
    \cup (IF pc = "walk" /\ \E name \in Top.todo :
                                IsFile(fs[Resolve(PathJoin(Top.dir, name))])
          THEN {"open", "metadata", "write_index"} ELSE {})
    \cup (IF pc = "copy" THEN {"read"} ELSE {})
    \cup (IF pc = "copy" /\ ChunkLen(fs[cur.key].data, cur.rpos) > 0
          THEN {"write_blob"} ELSE {})

\* `?` returns the error to the caller; `.unwrap()` panics.
FaultResult(f) == IF f = "metadata" THEN "panic" ELSE "io_error"

\* A fallible step fails: the call ends there, nothing more is written.
IoFault ==
    /\ \E f \in FaultPoints :
         /\ fault' = f
         /\ result' = FaultResult(f)
    /\ pc' = "done"
    /\ UNCHANGED <<fs, argVars, walkVars, readerVars, created, src_lines>>

\* ------------------------------------------------------------ AssetIndexer
\* One turn of the loop of AssetIndexer::new on one line: the entry it
\* inserts, or a panic (index out of bounds, or unwrap of a parse error).
ParseLine(line) ==
    LET fields == SplitStr(line, DELIM)
    IN IF Len(fields) < 4 THEN [ok |-> FALSE, path |-> <<>>, asset |-> NoAsset]
       ELSE IF ParseU64(fields[2]) < 0 \/ ParseU64(fields[3]) < 0
       THEN [ok |-> FALSE, path |-> <<>>, asset |-> NoAsset]
       ELSE [ok |-> TRUE, path |-> fields[1],
             asset |-> [offset |-> ParseU64(fields[2]),
                        len |-> ParseU64(fields[3]),
                        mime |-> fields[4]]]

\* Variant of MapInsert that keeps the earlier entry of a key.
MapInsertKeepFirst(m, path, asset) ==
    [p \in DOMAIN m \cup {path} |-> IF p \in DOMAIN m THEN m[p] ELSE asset]

\* HashMap::insert: a later entry replaces an earlier one with the same key.
MapInsert(m, path, asset) ==
    [p \in DOMAIN m \cup {path} |-> IF p = path THEN asset ELSE m[p]]

\* locate_asset: HashMap::get on the exact key.
LocateAsset(m, path) ==
    IF path \in DOMAIN m THEN [some |-> TRUE, asset |-> m[path]] ELSE NoFound

\* The reader of the repository's test: the whole index file is read after a
\* successful build and handed to AssetIndexer::new.
ReadIndex ==
    /\ pc = "done"
    /\ result = "ok"
    /\ content' = fs[IdxKey].data
    /\ lines' = Lines(fs[IdxKey].data)
    /\ asset_map' = EmptyMap
    /\ pc' = "parse"
    /\ UNCHANGED <<fs, argVars, walkVars, result, created, fault, query, found,
                   src_lines>>

IndexLine ==
    /\ pc = "parse"
    /\ lines # <<>>
    /\ LET r == ParseLine(Head(lines))
       IN IF r.ok
          THEN /\ asset_map' = MapInsert(asset_map, r.path, r.asset)
               /\ lines' = Tail(lines)
               /\ pc' = pc
          ELSE /\ pc' = "parse_panic"
               /\ UNCHANGED <<asset_map, lines>>
    /\ UNCHANGED <<fs, argVars, walkVars, result, created, fault, content,
                   query, found, src_lines>>

IndexBuilt ==
    /\ pc = "parse"
    /\ lines = <<>>
    /\ pc' = "built"
    /\ UNCHANGED <<fs, argVars, walkVars, result, created, fault, content,
                   lines, asset_map, query, found, src_lines>>

Queries == {<<"x", "j">>, <<"s", "/", "c">>, <<"p">>, <<"p", "q">>}

Locate ==
    /\ pc = "built"
    /\ \E q \in Queries :
         /\ query' = q
         /\ found' = LocateAsset(asset_map, q)
    /\ pc' = "located"
    /\ UNCHANGED <<fs, argVars, walkVars, result, created, fault, content,
                   lines, asset_map, src_lines>>

\* ------------------------------------------------------------ specification
Next ==
    \/ CheckBlobPath
    \/ CheckIndexPath
    \/ CreateBlob
    \/ CreateIndex
    \/ EnterDir
    \/ VisitFile
    \/ VisitDir
    \/ SkipEntry
    \/ ReturnDir
    \/ CopyChunk
    \/ CopyEnd
    \/ IoFault
    \/ ReadIndex
    \/ IndexLine
    \/ IndexBuilt
    \/ Locate

Spec == Init /\ [][Next]_vars

SpecGuard == InitGuard /\ [][Next]_vars

\* ------------------------------------------- the parser on arbitrary texts
\* Index texts are made of lines of fields; the parser sees only the text.
P  == <<"p">>
PQ == <<"p", "q">>
M  == <<"m">>

WellFormedLines ==
    {<<path, off, len, mime>> :
        path \in {P, PQ},
        off \in {<<"0">>, <<"1", "2">>},
        len \in {<<"7">>, <<"+", "3">>},
        mime \in {<<>>, M}}

MalformedLines ==
    { << <<>> >>,
      <<P>>,
      <<P, <<"0">> >>,
      <<P, <<"0">>, <<"7">> >>,
      <<P, <<"0">>, <<"7">>, M, P>>,
      <<P, <<"z">>, <<"7">>, M>>,
      <<P, <<"0">>, <<>>, M>> }

LinePool == WellFormedLines \cup MalformedLines

\* The number a numeric field of the pool stands for, -1 if it is no number.
NumVal(t) ==
    CASE t = <<"0">> -> 0
      [] t = <<"7">> -> 7
      [] t = <<"1", "2">> -> 12
      [] t = <<"+", "3">> -> 3
      [] OTHER -> -1

RECURSIVE JoinFields(_)
JoinFields(fields) ==
    IF Len(fields) = 1 THEN fields[1]
    ELSE fields[1] \o DELIM \o JoinFields(Tail(fields))

RECURSIVE JoinLines(_, _)
JoinLines(ls, final_newline) ==
    IF ls = <<>> THEN <<>>
    ELSE IF Len(ls) = 1
    THEN JoinFields(ls[1]) \o (IF final_newline THEN <<"\n">> ELSE <<>>)
    ELSE JoinFields(ls[1]) \o <<"\n">> \o JoinLines(Tail(ls), final_newline)

RECURSIVE SeqsUpTo(_, _)
SeqsUpTo(S, n) ==
    IF n = 0 THEN {<<>>}
    ELSE LET shorter == SeqsUpTo(S, n - 1)
         IN shorter \cup {Append(q, x) : q \in shorter, x \in S}

InitParse ==
    /\ src_lines \in SeqsUpTo(LinePool, MaxLines)
    /\ \E final_newline \in BOOLEAN :
          /\ final_newline \/ (src_lines # <<>> /\ Last(src_lines) # << <<>> >>)
          /\ content = JoinLines(src_lines, final_newline)
    /\ lines = Lines(content)
    /\ asset_map = EmptyMap
    /\ query = <<>>
    /\ found = NoFound
    /\ pc = "parse"
    /\ fs = [k \in Keys |-> IF k = KRoot THEN Node("dir", <<>>) ELSE Absent]
    /\ fs0 = fs
    /\ src_dir = <<"d">>
    /\ blob_path = <<"B">>
    /\ idx_path = <<"I">>
    /\ overwrite = FALSE
    /\ result = "running"
    /\ base_dir = <<>>
    /\ enter_dir = <<>>
    /\ stack = <<>>
    /\ cur = NoCur
    /\ offset = 0
    /\ created = FALSE
    /\ fault = "none"
    /\ idx_log = <<>>
    /\ blob_log = <<>>

NextParse ==
    \/ IndexLine
    \/ IndexBuilt
    \/ Locate

SpecParse == InitParse /\ [][NextParse]_vars

\* ------------------------------------------------------------------ claims
\* The regular files of the source tree.
TreeFiles == {k \in Keys : Len(k) >= 2 /\ k[1] = D /\ fs[k].kind = "file"}

RECURSIVE JoinPath(_)
JoinPath(names) ==
    IF Len(names) = 1 THEN names[1]
    ELSE names[1] \o <<"/">> \o JoinPath(Tail(names))

\* The path of file k relative to the source root.
RelOf(k) == JoinPath(Tail(k))

\* The records of the index file, read back from its text.
IndexRecords ==
    LET ls == Lines(fs[IdxKey].data)
    IN [i \in 1..Len(ls) |-> ParseLine(ls[i])]

RECURSIVE SumLen(_)
SumLen(recs) ==
    IF recs = <<>> THEN 0 ELSE recs[1].asset.len + SumLen(Tail(recs))

Blob == fs[BlobKey].data

\* C1: after create_archive returns Ok, the len fields of the index records
\* sum to the size of the blob file.
C1_SizeInvariant ==
    (created /\ result = "ok") =>
        LET recs == IndexRecords
        IN /\ \A i \in 1..Len(recs) : recs[i].ok
           /\ SumLen(recs) = Len(Blob)

\* C2: after create_archive(D, blob, idx, true) returned Ok and the index was
\* parsed, every regular file f under D is located under its relative path,
\* with len the length of f and the blob holding f's bytes at
\* [offset, offset+len).
C2_RoundTrip ==
    (pc \in {"built", "located"} /\ result = "ok" /\ overwrite) =>
        \A k \in TreeFiles :
            LET a == LocateAsset(asset_map, RelOf(k))
            IN /\ a.some
               /\ a.asset.len = Len(fs[k].data)
               /\ SubSeq(Blob, a.asset.offset + 1, a.asset.offset + a.asset.len)
                    = fs[k].data

\* C3: the index records, in the order written, start at offset 0 and each
\* later record starts where the previous one ends.
C3_ContiguousRanges ==
    created =>
        LET recs == IndexRecords
        IN \A i \in 1..Len(recs) :
              /\ recs[i].ok
              /\ recs[i].asset.offset =
                   IF i = 1 THEN 0
                   ELSE recs[i - 1].asset.offset + recs[i - 1].asset.len

C3_Witness ==
    /\ created
    /\ result = "ok"
    /\ Len(IndexRecords) >= 3
    /\ IndexRecords[1].asset.len > 1
    /\ IndexRecords[2].asset.len > 0
    /\ IndexRecords[3].asset.offset > 1

Occupied(n) == n.kind \in {"file", "symlink"}

\* C4 as stated: with overwrite_existing false and a destination that is a
\* regular file or a symlink, create_archive fails with 'already exists'
\* and leaves the file system as it was.
C4_OverwriteGuard ==
    (pc = "done" /\ ~overwrite /\ (Occupied(fs0[BlobKey]) \/ Occupied(fs0[IdxKey]))) =>
        /\ result = "already_exists"
        /\ fs = fs0

\* C4 amended: in that case create_archive fails and leaves the file system
\* as it was; the error is 'already exists', except that it is 'path exists
\* but not a file' when the blob path is neither a regular file nor a
\* symlink but exists.
C4_OverwriteGuardAmended ==
    (pc = "done" /\ ~overwrite /\ (Occupied(fs0[BlobKey]) \/ Occupied(fs0[IdxKey]))) =>
        /\ fs = fs0
        /\ result = IF fs0[BlobKey].kind \in {"file", "symlink", "none"}
                    THEN "already_exists" ELSE "not_a_file"

C4_Witness ==
    /\ pc = "done"
    /\ ~overwrite
    /\ fs0[BlobKey].kind = "none"
    /\ fs0[IdxKey] = Node("file", <<"q">>)
    /\ result = "already_exists"
    /\ fs[IdxKey] = Node("file", <<"q">>)

\* A line of the input that the index format does not allow.
BadLine(l) ==
    /\ l # << <<>> >>
    /\ \/ Len(l) # 4
       \/ NumVal(l[2]) < 0
       \/ NumVal(l[3]) < 0

\* C5: parsing never aborts; it ends with an error value exactly when some
\* non-empty line has not four fields or has a non-numeric offset or length,
\* and with a map otherwise (empty lines are ignored).
C5_ParseTotal ==
    /\ pc # "parse_panic"
    /\ pc \in {"built", "located"} =>
          \A i \in 1..Len(src_lines) : ~BadLine(src_lines[i])

WellFormed == \A i \in 1..Len(src_lines) : Len(src_lines[i]) = 4 /\ ~BadLine(src_lines[i])

MaxOf(S) == CHOOSE i \in S : \A j \in S : i >= j

\* What C6 says locate_asset answers for path q.
Expected(q) ==
    LET hits == {i \in 1..Len(src_lines) : src_lines[i][1] = q}
    IN IF hits = {} THEN NoFound
       ELSE LET l == src_lines[MaxOf(hits)]
            IN [some |-> TRUE,
                asset |-> [offset |-> NumVal(l[2]), len |-> NumVal(l[3]),
                           mime |-> l[4]]]

\* C6: on a well-formed index text, locate_asset(p) is Some exactly when p
\* equals the path field of some line, and then carries the offset, len and
\* mime of the last such line.
C6_LocateLastWins ==
    (pc = "located" /\ WellFormed) =>
        /\ found = Expected(query)
        /\ \A q \in Queries : LocateAsset(asset_map, q) = Expected(q)

C6_Witness ==
    /\ pc = "located"
    /\ WellFormed
    /\ Len(src_lines) = 2
    /\ src_lines[1][1] = P
    /\ src_lines[2][1] = P
    /\ src_lines[1][2] # src_lines[2][2]
    /\ query = P
    /\ found.some
    /\ found.asset.offset = NumVal(src_lines[2][2])
    /\ ~LocateAsset(asset_map, PQ).some

RECURSIVE SumLogLen(_)
SumLogLen(log) ==
    IF log = <<>> THEN 0 ELSE log[1].len + SumLogLen(Tail(log))

\* C7: a successful build has written one index line for each regular file
\* of the tree and for nothing else, entries that are skipped leave the
\* offset counter alone, and the files' bytes lie in the blob in the order
\* of the index lines.
C7_OneLinePerFile ==
    result = "ok" =>
        /\ Len(Lines(fs[IdxKey].data)) = Len(idx_log)
        /\ {idx_log[i].key : i \in 1..Len(idx_log)} = TreeFiles
        /\ \A i, j \in 1..Len(idx_log) : idx_log[i].key = idx_log[j].key => i = j
        /\ offset = SumLogLen(idx_log)
        /\ Len(blob_log) = Len(idx_log)
        /\ \A i \in 1..Len(blob_log) :
              /\ blob_log[i].key = idx_log[i].key
              /\ blob_log[i].from = IF i = 1 THEN 0 ELSE blob_log[i - 1].to
        /\ blob_log # <<>> => Last(blob_log).to = Len(Blob)

C7_Witness ==
    /\ result = "ok"
    /\ pc = "done"
    /\ fs[KO].kind = "symlink"
    /\ fs[KS].kind = "dir"
    /\ Len(idx_log) = 2
    /\ idx_log[1].key = KC
    /\ idx_log[2].key = KX
    /\ Blob = <<"z", "u", "v", "w">>

\* C8: an I/O failure at any fallible step ends create_archive with that
\* error returned to the caller, not with a panic.
C8_IoErrorReturned == fault # "none" => result = "io_error"

\* C9: every path written to the index is the file's path relative to the
\* source root, however many '/' end src_dir.
C9_RelativePath ==
    created =>
        LET recs == IndexRecords
        IN \A i \in 1..Len(idx_log) :
              /\ i <= Len(recs)
              /\ recs[i].path = RelOf(idx_log[i].key)

\* C10: the copy loop reaches end-of-file: every chunk it copies leaves
\* fewer unread bytes in the file it is reading.
C10_CopyReachesEof ==
    [][(pc = "copy" /\ pc' = "copy") => Unread' < Unread]_vars

====
